---- MODULE Spec2Model ----
(***************************************************************************)
(* State machine of the voice session component App (src/App.tsx): the     *)
(* React state and refs of the component, the resources each call of       *)
(* handleStartSession creates, the callbacks of the live channel and the   *)
(* capture callback, with every `await` a point where other callbacks run. *)
(***************************************************************************)
EXTENDS Integers, Sequences, FiniteSets, TLC

\* ---------------------------------------------------------------- bounds
MaxAttempts == 2    \* calls of handleStartSession that take the start branch
MaxMsgs == 3        \* inbound messages delivered to onmessage
MaxClock == 2       \* largest value of outCtx.currentTime explored
SpecMsgs == 1       \* inbound messages in the specification of the whole component
SpecClock == 1      \* largest clock value in the specification of the whole component
MaxFrames == 3      \* capture frames delivered to onaudioprocess
SpecFrames == 1     \* capture frames in the specification of the whole component

Attempts == 1..MaxAttempts
Durations == {1, 2}  \* buffer.duration of the decoded fragments explored
NoRef == 0          \* a ref whose .current is null
NoFrame == [att |-> 0, sent |-> FALSE, seq |-> 0]

NoText == << >>     \* the empty string ''

Max(a, b) == IF a >= b THEN a ELSE b

\* History kept beside the program state. chain tells what last set the
\* timeline: by (init, stop, interrupt: a reset; sched: a unit was scheduled),
\* the value of nextStartTimeRef it left (end), the reset the current turn began
\* with (on) and the number of sounding units that reset stopped (n).
Reset(nst, why, stopped) == [end |-> nst, by |-> why, on |-> why, n |-> stopped]
Sched(nst, ch) == [end |-> nst, by |-> "sched", on |-> ch.on, n |-> ch.n]
Stopped(us, src) == Cardinality({u \in us : u.id \in src})

VARIABLES
    isActive,           \* useState(false)
    isMuted,            \* useState(false)
    connectionStatus,   \* useState('idle')
    sessionRef,         \* attempt whose session sessionRef.current holds, or NoRef
    audioContextRef,    \* attempt whose context pair audioContextRef.current holds
    streamRef,          \* attempt whose MediaStream streamRef.current holds
    nextStartTimeRef,   \* nextStartTimeRef.current
    sourcesRef,         \* sourcesRef.current: ids of the AudioBufferSourceNodes in the set
    pc,                 \* position of each handleStartSession call
    closureMuted,       \* isMuted as captured by the closures of each call
    ctx,                \* the context pair each call created: none, running, closed
    stream,             \* the MediaStream each call acquired: none, live, stopped
    chan,               \* the live channel each call opened
    capture,            \* whether onopen wired the script processor of the call
    lastFrame,          \* the latest capture frame: whose callback, and what it did
    clock,              \* currentTime of audioContextRef.current.output
    handlers,           \* onmessage invocations suspended at `await decodeAudioData`
    units,              \* the AudioBufferSourceNodes started and neither stopped nor over
    chain,              \* what last set the timeline: the end it left and the cause
    nAttempts, nMsgs,
    currentInput,       \* useState(''): the user's in-progress transcript
    currentOutput,      \* useState(''): the model's in-progress transcript
    history,            \* useState([]): the finalized transcript entries
    closureInput,       \* currentInput as captured by the closures of each call
    closureOutput,      \* currentOutput as captured by the closures of each call
    lastTurnComplete,   \* the message whose turnComplete was handled last (0: none)
    sessionPromise,     \* the promise ai.live.connect returned to each call
    thens,              \* the callbacks queued on each pending sessionPromise by .then
    sendLog,            \* the frames passed to session.sendRealtimeInput, in order
    nFrames

vars == << isActive, isMuted, connectionStatus, sessionRef, audioContextRef,
           streamRef, nextStartTimeRef, sourcesRef, pc, closureMuted, ctx, stream,
           chan, capture, lastFrame, clock, handlers, units, chain,
           nAttempts, nMsgs, currentInput, currentOutput, history, closureInput,
           closureOutput, lastTurnComplete, sessionPromise, thens, sendLog,
           nFrames >>

reactVars == << isActive, isMuted, connectionStatus >>
refVars == << sessionRef, audioContextRef, streamRef >>
playVars == << nextStartTimeRef, sourcesRef, handlers, units, chain >>
attemptVars == << pc, closureMuted, ctx, stream, chan, capture >>
countVars == << nAttempts, nMsgs >>
textVars == << currentInput, currentOutput, history, lastTurnComplete >>
closureTextVars == << closureInput, closureOutput >>
sendVars == << sessionPromise, thens, sendLog, nFrames >>

Init ==
    /\ isActive = FALSE
    /\ isMuted = FALSE
    /\ connectionStatus = "idle"
    /\ sessionRef = NoRef
    /\ audioContextRef = NoRef
    /\ streamRef = NoRef
    /\ nextStartTimeRef = 0
    /\ sourcesRef = {}
    /\ pc = [k \in Attempts |-> "unused"]
    /\ closureMuted = [k \in Attempts |-> FALSE]
    /\ ctx = [k \in Attempts |-> "none"]
    /\ stream = [k \in Attempts |-> "none"]
    /\ chan = [k \in Attempts |-> "none"]
    /\ capture = [k \in Attempts |-> FALSE]
    /\ lastFrame = NoFrame
    /\ clock = 0
    /\ handlers = {}
    /\ units = {}
    /\ chain = Reset(0, "init", 0)
    /\ nAttempts = 0
    /\ nMsgs = 0
    /\ currentInput = NoText
    /\ currentOutput = NoText
    /\ history = << >>
    /\ closureInput = [k \in Attempts |-> NoText]
    /\ closureOutput = [k \in Attempts |-> NoText]
    /\ lastTurnComplete = 0
    /\ sessionPromise = [k \in Attempts |-> "none"]
    /\ thens = [k \in Attempts |-> << >>]
    /\ sendLog = << >>
    /\ nFrames = 0

\* ------------------------------------------------------- playback helpers
\* A slip ClockSample could hold: the device clock alone, the timeline forgotten
ClockSampleClockOnly(nst, now) == now

\* Math.max(nextStartTimeRef.current, outCtx.currentTime)
ClockSample(nst, now) == Max(nst, now)

\* nextStartTimeRef.current += buffer.duration
Advance(nst, dur) == nst + dur

\* A slip AfterInterrupt could hold: the timeline is left where it was
AfterInterruptKept(nst) == nst

\* nextStartTimeRef.current = 0 in the interrupted branch
AfterInterrupt(nst) == 0

\* nextStartTimeRef.current = 0 in stopAudio
AfterStop(nst) == 0

\* source.stop() on every node of the set: the nodes still sounding afterwards
StopSources(us, src) == { u \in us : u.id \notin src }

\* sourcesRef.current.clear()
ClearSources(src) == {}

\* A slip StopTracks could hold: the tracks are left running
StopTracksNone(s, ref) == s

\* streamRef.current.getTracks().forEach(track => track.stop())
StopTracks(s, ref) ==
    IF ref # NoRef /\ s[ref] = "live" THEN [s EXCEPT ![ref] = "stopped"] ELSE s

\* audioContextRef.current.input.close(); audioContextRef.current.output.close()
CloseContexts(c, ref) ==
    IF ref # NoRef /\ c[ref] = "running" THEN [c EXCEPT ![ref] = "closed"] ELSE c

\* sessionRef.current?.close()
CloseSession(ch, ref) ==
    IF ref # NoRef /\ ch[ref] = "open" THEN [ch EXCEPT ![ref] = "closing"] ELSE ch

\* History kept beside the program state: a fragment that arrived before a reset
\* of the timeline belongs to an earlier turn from then on.
MarkUnits(us, why) ==
    { [u EXCEPT !.intrd = (u.intrd \/ why = "interrupt"),
                !.stopd = (u.stopd \/ why = "stop")] : u \in us }

MarkHandlers(hs, why) ==
    { [h EXCEPT !.intrSince = (h.intrSince \/ why = "interrupt"),
                !.stopSince = (h.stopSince \/ why = "stop"),
                !.devSince = (h.devSince \/ why = "device")] : h \in hs }

\* The body of stopAudio
stopAudio ==
    /\ stream' = StopTracks(stream, streamRef)
    /\ ctx' = CloseContexts(ctx, audioContextRef)
    /\ units' = MarkUnits(StopSources(units, sourcesRef), "stop")
    /\ sourcesRef' = ClearSources(sourcesRef)
    /\ nextStartTimeRef' = AfterStop(nextStartTimeRef)
    /\ handlers' = MarkHandlers(handlers, "stop")
    /\ chain' = Reset(nextStartTimeRef', "stop", Stopped(units, sourcesRef))

\* ------------------------------------------------------ handleStartSession
\* if (isActive) { ... stopAudio(); return; }
StopBranch ==
    /\ isActive
    /\ isActive' = FALSE
    /\ connectionStatus' = "idle"
    /\ chan' = CloseSession(chan, sessionRef)
    /\ stopAudio
    /\ UNCHANGED << isMuted, refVars, pc, closureMuted, capture, lastFrame, clock,
                    countVars, textVars, closureTextVars, sendVars >>

\* setConnectionStatus('connecting'); setupAudio() up to `await getUserMedia`.
\* The closures made by this call see the isMuted of the render it ran in.
StartBranch ==
    /\ ~isActive
    /\ nAttempts < MaxAttempts
    /\ LET k == nAttempts + 1 IN
        /\ nAttempts' = k
        /\ connectionStatus' = "connecting"
        /\ ctx' = [ctx EXCEPT ![k] = "running"]
        /\ audioContextRef' = k
        /\ clock' = 0
        /\ closureMuted' = [closureMuted EXCEPT ![k] = isMuted]
        /\ closureInput' = [closureInput EXCEPT ![k] = currentInput]
        /\ closureOutput' = [closureOutput EXCEPT ![k] = currentOutput]
        /\ pc' = [pc EXCEPT ![k] = "awaitMedia"]
        /\ handlers' = MarkHandlers(handlers, "device")
    /\ UNCHANGED << isActive, isMuted, sessionRef, streamRef, nextStartTimeRef,
                    sourcesRef, units, chain, stream, chan, capture, lastFrame,
                    nMsgs, textVars, sendVars >>

handleStartSession == StopBranch \/ StartBranch

\* getUserMedia resolves: streamRef.current is set, setupAudio returns,
\* ai.live.connect is called and the call waits at `await sessionPromise`.
MediaGranted(k) ==
    /\ pc[k] = "awaitMedia"
    /\ stream' = [stream EXCEPT ![k] = "live"]
    /\ streamRef' = k
    /\ chan' = [chan EXCEPT ![k] = "connecting"]
    /\ pc' = [pc EXCEPT ![k] = "awaitConnect"]
    /\ sessionPromise' = [sessionPromise EXCEPT ![k] = "pending"]
    /\ UNCHANGED << reactVars, sessionRef, audioContextRef, playVars, closureMuted,
                    ctx, capture, lastFrame, clock, countVars, textVars,
                    closureTextVars, thens, sendLog, nFrames >>

\* getUserMedia rejects: the catch block of handleStartSession
MediaDenied(k) ==
    /\ pc[k] = "awaitMedia"
    /\ connectionStatus' = "error"
    /\ pc' = [pc EXCEPT ![k] = "done"]
    /\ UNCHANGED << isActive, isMuted, refVars, playVars, closureMuted, ctx, stream,
                    chan, capture, lastFrame, clock, countVars, textVars,
                    closureTextVars, sendVars >>

\* A slip RunThens could hold: the callbacks run newest first
RunThensNewestFirst(log, q) == log \o [i \in 1..Len(q) |-> q[Len(q) + 1 - i]]

\* sessionPromise is fulfilled: the callbacks .then queued on it run in the
\* order they were queued, each passing its frame to session.sendRealtimeInput
RunThens(log, q) == log \o q

\* The channel opens: onopen runs, then sessionPromise resolves in the same
\* task and the call stores the session (sessionRef.current = await sessionPromise).
onopen(k) ==
    /\ chan[k] = "connecting"
    /\ chan' = [chan EXCEPT ![k] = "open"]
    /\ connectionStatus' = "connected"
    /\ isActive' = TRUE
    /\ capture' = [capture EXCEPT ![k] = TRUE]
    /\ sessionRef' = k
    /\ pc' = [pc EXCEPT ![k] = "done"]
    /\ sessionPromise' = [sessionPromise EXCEPT ![k] = "resolved"]
    /\ sendLog' = RunThens(sendLog, thens[k])
    /\ thens' = [thens EXCEPT ![k] = << >>]
    /\ UNCHANGED << isMuted, audioContextRef, streamRef, playVars, closureMuted, ctx,
                    stream, lastFrame, clock, countVars, textVars, closureTextVars,
                    nFrames >>

\* The channel opens and onopen runs while sessionPromise is still pending:
\* the library fulfils the promise in a later task
onopenFirst(k) ==
    /\ chan[k] = "connecting"
    /\ chan' = [chan EXCEPT ![k] = "open"]
    /\ connectionStatus' = "connected"
    /\ isActive' = TRUE
    /\ capture' = [capture EXCEPT ![k] = TRUE]
    /\ UNCHANGED << isMuted, refVars, playVars, pc, closureMuted, ctx, stream,
                    lastFrame, clock, countVars, textVars, closureTextVars,
                    sendVars >>

\* sessionPromise of call k is fulfilled after onopen has run: the call stores
\* the session (line 146), then the callbacks queued by .then run
sessionResolved(k) ==
    /\ sessionPromise[k] = "pending"
    /\ chan[k] \notin {"none", "connecting"}
    /\ sessionPromise' = [sessionPromise EXCEPT ![k] = "resolved"]
    /\ sessionRef' = k
    /\ pc' = [pc EXCEPT ![k] = "done"]
    /\ sendLog' = RunThens(sendLog, thens[k])
    /\ thens' = [thens EXCEPT ![k] = << >>]
    /\ UNCHANGED << reactVars, audioContextRef, streamRef, playVars, closureMuted,
                    ctx, stream, chan, capture, lastFrame, clock, countVars,
                    textVars, closureTextVars, nFrames >>

\* The channel reports an error, while connecting or when open
onerror(k) ==
    /\ chan[k] \in {"connecting", "open"}
    /\ chan' = [chan EXCEPT ![k] = "closing"]
    /\ connectionStatus' = "error"
    /\ isActive' = FALSE
    /\ pc' = [pc EXCEPT ![k] = "done"]
    /\ sessionPromise' = IF chan[k] = "connecting"
                         THEN [sessionPromise EXCEPT ![k] = "rejected"]
                         ELSE sessionPromise
    /\ UNCHANGED << isMuted, refVars, playVars, closureMuted, ctx, stream, capture,
                    lastFrame, clock, countVars, textVars, closureTextVars, thens,
                    sendLog, nFrames >>

\* The channel closes: by the remote side, after close(), or after an error
onclose(k) ==
    /\ chan[k] \in {"open", "closing"}
    /\ chan' = [chan EXCEPT ![k] = "closed"]
    /\ connectionStatus' = "idle"
    /\ isActive' = FALSE
    /\ UNCHANGED << isMuted, refVars, playVars, pc, closureMuted, ctx, stream, capture,
                    lastFrame, clock, countVars, textVars, closureTextVars,
                    sendVars >>

\* The mute button: setIsMuted(!isMuted)
ToggleMute ==
    /\ isMuted' = ~isMuted
    /\ UNCHANGED << isActive, connectionStatus, refVars, playVars, attemptVars,
                    lastFrame, clock, countVars, textVars, closureTextVars,
                    sendVars >>

\* scriptProcessor.onaudioprocess of call k: the input context delivers a frame.
\* sent: the frame went to sessionPromise.then(session => sendRealtimeInput);
\* seq tells one frame from the next. The callback given to .then runs right
\* after this one when the promise is fulfilled already, and waits on the
\* promise (queued: TRUE) when it is pending.
onaudioprocess(k) ==
    /\ capture[k]
    /\ ctx[k] = "running"
    /\ nFrames < MaxFrames
    /\ nFrames' = nFrames + 1
    /\ lastFrame' = [att |-> k, sent |-> ~closureMuted[k], seq |-> 1 - lastFrame.seq]
    /\ LET f == [att |-> k, n |-> nFrames + 1,
                 queued |-> sessionPromise[k] # "resolved"]
       IN IF closureMuted[k] \/ sessionPromise[k] \notin {"pending", "resolved"}
          THEN UNCHANGED << thens, sendLog >>
          ELSE IF sessionPromise[k] = "resolved"
          THEN sendLog' = RunThens(sendLog, << f >>) /\ UNCHANGED thens
          ELSE thens' = [thens EXCEPT ![k] = Append(@, f)] /\ UNCHANGED sendLog
    /\ UNCHANGED << reactVars, refVars, playVars, attemptVars, clock, nAttempts,
                    nMsgs, textVars, closureTextVars, sessionPromise >>

\* The output device's clock advances while its context runs
Tick ==
    /\ audioContextRef # NoRef
    /\ ctx[audioContextRef] = "running"
    /\ clock < MaxClock
    /\ clock' = clock + 1
    /\ UNCHANGED << reactVars, refVars, playVars, attemptVars, lastFrame, countVars,
                    textVars, closureTextVars, sendVars >>

\* ---------------------------------------------------------------- onmessage
\* decodeAudioData(decode(audioData), outCtx, 24000, 1): the buffer's duration
\* is that of the fragment's samples
decodeAudioData(dur) == dur

\* if (message.serverContent?.interrupted) { ... } applied to the units us and
\* the set src: the units still sounding afterwards
InterruptedUnits(us, src) == MarkUnits(StopSources(us, src), "interrupt")

\* prev => prev + text
AppendText(prev, text) == prev \o text

\* The text of the partial transcript a message carries: each message's own
TextOf(id) == << id >>

\* setHistory(prev => [...prev, {type: 'user', ...}, {type: 'model', ...}])
Finalize(hist, inp, out) ==
    hist \o << [type |-> "user", text |-> inp], [type |-> "model", text |-> out] >>

\* Lines 111-126 for message id of channel k: inT, outT tell whether it carries
\* inputTranscription, outputTranscription; tc is its turnComplete flag. The
\* texts written to the history are the currentInput and currentOutput the
\* closure of call k holds; the updates of one handler are applied in order.
Transcriptions(k, id, inT, outT, tc) ==
    /\ currentInput' = IF tc THEN NoText
                       ELSE IF inT THEN AppendText(currentInput, TextOf(id))
                       ELSE currentInput
    /\ currentOutput' = IF tc THEN NoText
                        ELSE IF outT THEN AppendText(currentOutput, TextOf(id))
                        ELSE currentOutput
    /\ history' = IF tc THEN Finalize(history, closureInput[k], closureOutput[k])
                  ELSE history
    /\ lastTurnComplete' = IF tc THEN id ELSE lastTurnComplete

\* The handler from its first line to `await decodeAudioData`, for a message of
\* channel k with an audio fragment of duration dur (0: none), the interrupted
\* flag intr and the transcription content inT, outT, tc. Without a fragment
\* the handler runs to its end.
onmessage(k, dur, intr, inT, outT, tc) ==
    /\ chan[k] = "open"
    /\ nMsgs < MaxMsgs
    /\ dur > 0 \/ intr \/ inT \/ outT \/ tc
    /\ nMsgs' = nMsgs + 1
    /\ IF dur > 0 /\ audioContextRef # NoRef
       THEN /\ nextStartTimeRef' = ClockSample(nextStartTimeRef, clock)
            /\ handlers' = handlers \cup
                   {[id |-> nMsgs + 1, att |-> k, dur |-> dur, intr |-> intr,
                     inT |-> inT, outT |-> outT, tc |-> tc, entry |-> clock,
                     intrSince |-> FALSE, stopSince |-> FALSE, devSince |-> FALSE]}
            /\ UNCHANGED << sourcesRef, units, chain, textVars >>
       ELSE /\ Transcriptions(k, nMsgs + 1, inT, outT, tc)
            /\ IF intr
               THEN /\ units' = InterruptedUnits(units, sourcesRef)
                    /\ sourcesRef' = ClearSources(sourcesRef)
                    /\ nextStartTimeRef' = AfterInterrupt(nextStartTimeRef)
                    /\ handlers' = MarkHandlers(handlers, "interrupt")
                    /\ chain' = Reset(nextStartTimeRef', "interrupt",
                                      Stopped(units, sourcesRef))
               ELSE UNCHANGED playVars
    /\ UNCHANGED << reactVars, refVars, attemptVars, lastFrame, clock, nAttempts,
                    closureTextVars, sendVars >>

\* The unit lines 100-106 create for the suspended handler h: source.start(when)
NewUnit(h) ==
    [id |-> h.id, when |-> nextStartTimeRef, dur |-> decodeAudioData(h.dur),
     intrd |-> h.intrSince, stopd |-> h.stopSince]

\* decodeAudioData resolves: the handler h goes on from line 100 to its end
DecodeDone(h) ==
    /\ h \in handlers
    /\ LET u == NewUnit(h)
           nst == Advance(nextStartTimeRef, u.dur)
           src == sourcesRef \cup {h.id}
           rest == handlers \ {h}
       IN IF h.intr
          THEN /\ units' = InterruptedUnits(units \cup {u}, src)
               /\ sourcesRef' = ClearSources(src)
               /\ nextStartTimeRef' = AfterInterrupt(nst)
               /\ handlers' = MarkHandlers(rest, "interrupt")
               /\ chain' = Reset(nextStartTimeRef', "interrupt", Stopped(units, sourcesRef))
          ELSE /\ units' = units \cup {u}
               /\ sourcesRef' = src
               /\ nextStartTimeRef' = nst
               /\ handlers' = rest
               /\ chain' = Sched(nextStartTimeRef', chain)
    /\ Transcriptions(h.att, h.id, h.inT, h.outT, h.tc)
    /\ UNCHANGED << reactVars, refVars, attemptVars, lastFrame, clock, countVars,
                    closureTextVars, sendVars >>

\* decodeAudioData rejects: the handler h ends at the await, nothing after it runs
DecodeFailed(h) ==
    /\ h \in handlers
    /\ handlers' = handlers \ {h}
    /\ UNCHANGED << reactVars, refVars, nextStartTimeRef, sourcesRef, units, chain,
                    attemptVars, lastFrame, clock, countVars, textVars,
                    closureTextVars, sendVars >>

\* The 'ended' listener of a unit whose buffer has been played to its end
ended(u) ==
    /\ u \in units
    /\ clock >= u.when + u.dur
    /\ units' = units \ {u}
    /\ sourcesRef' = sourcesRef \ {u.id}
    /\ UNCHANGED << reactVars, refVars, nextStartTimeRef, handlers, chain,
                    attemptVars, lastFrame, clock, countVars, textVars,
                    closureTextVars, sendVars >>

\* The whole component: every callback, sessions started over one another,
\* at most SpecMsgs inbound messages
Next ==
    \/ handleStartSession
    \/ \E k \in Attempts : MediaGranted(k)
    \/ \E k \in Attempts : MediaDenied(k)
    \/ \E k \in Attempts : onopen(k)
    \/ \E k \in Attempts : onerror(k)
    \/ \E k \in Attempts : onclose(k)
    \/ ToggleMute
    \/ \E k \in Attempts : nFrames < SpecFrames /\ onaudioprocess(k)
    \/ clock < SpecClock /\ Tick
    \/ \E k \in Attempts, dur \in {0} \cup Durations, intr \in BOOLEAN :
           nMsgs < SpecMsgs /\ onmessage(k, dur, intr, FALSE, FALSE, FALSE)
    \/ \E h \in handlers : DecodeDone(h)
    \/ \E h \in handlers : DecodeFailed(h)
    \/ \E u \in units : ended(u)

Spec == Init /\ [][Next]_vars

\* One session from the click that starts it to its stop or close, with up to
\* MaxMsgs inbound messages and the device clock up to MaxClock
NextPlayback ==
    \/ (isActive \/ nAttempts = 0) /\ handleStartSession
    \/ \E k \in Attempts : MediaGranted(k)
    \/ \E k \in Attempts : onopen(k)
    \/ \E k \in Attempts : onclose(k)
    \/ Tick
    \/ \E k \in Attempts, dur \in {0} \cup Durations, intr \in BOOLEAN :
           onmessage(k, dur, intr, FALSE, FALSE, FALSE)
    \/ \E h \in handlers : DecodeDone(h)
    \/ \E h \in handlers : DecodeFailed(h)
    \/ \E u \in units : ended(u)

SpecPlayback == Init /\ [][NextPlayback]_vars

\* One session with its capture loop and the mute button
NextCapture ==
    \/ (isActive \/ nAttempts = 0) /\ handleStartSession
    \/ \E k \in Attempts : MediaGranted(k)
    \/ \E k \in Attempts : onopen(k)
    \/ \E k \in Attempts : onerror(k)
    \/ \E k \in Attempts : onclose(k)
    \/ ToggleMute
    \/ \E k \in Attempts : onaudioprocess(k)
    \/ Tick

SpecCapture == Init /\ [][NextCapture]_vars

\* One session whose inbound messages carry partial transcripts and
\* turnComplete, with or without an audio fragment
NextTranscript ==
    \/ (isActive \/ nAttempts = 0) /\ handleStartSession
    \/ \E k \in Attempts : MediaGranted(k)
    \/ \E k \in Attempts : onopen(k)
    \/ \E k \in Attempts, dur \in {0, 1}, inT, outT, tc \in BOOLEAN :
           onmessage(k, dur, FALSE, inT, outT, tc)
    \/ \E h \in handlers : DecodeDone(h)
    \/ \E h \in handlers : DecodeFailed(h)

SpecTranscript == Init /\ [][NextTranscript]_vars

\* One session and its outbound frames, the library fulfilling sessionPromise
\* either in the task of onopen or in a later one
NextSend ==
    \/ (isActive \/ nAttempts = 0) /\ handleStartSession
    \/ \E k \in Attempts : MediaGranted(k)
    \/ \E k \in Attempts : onopen(k)
    \/ \E k \in Attempts : onopenFirst(k)
    \/ \E k \in Attempts : sessionResolved(k)
    \/ \E k \in Attempts : onerror(k)
    \/ \E k \in Attempts : onclose(k)
    \/ ToggleMute
    \/ \E k \in Attempts : onaudioprocess(k)

SpecSend == Init /\ [][NextSend]_vars

\* ------------------------------------------------------------------ claims
\* The handler h ran from the arrival of its message to start() within one
\* turn on one output device: no interruption, no stop, no new context between
Fresh(h) == ~(h.intrSince \/ h.stopSince \/ h.devSince)

\* This step is the one in which the suspended handler h schedules the unit u
Schedules(h, u) == h \in handlers /\ h \notin handlers' /\ u \in units' /\ u.id = h.id

\* This step handles an interruption event (lines 128-132)
Interrupts ==
    \/ \E k \in Attempts, inT, outT, tc \in BOOLEAN :
           onmessage(k, 0, TRUE, inT, outT, tc)
    \/ \E h \in handlers : h.intr /\ DecodeDone(h)

C3_NoFragmentFromBeforeInterruption ==
    \A u \in units : ~u.intrd /\ ~(u.id \in sourcesRef /\ u.intrd)

\* C4: of two fragments of one turn, the one whose message arrived first is
\* scheduled with a start time not later than the other's.
C4_StartsInArrivalOrder ==
    \A a, b \in units :
        (a.id < b.id /\ ~a.intrd /\ ~a.stopd /\ ~b.intrd /\ ~b.stopd) =>
            a.when <= b.when

\* C5: a capture frame is forwarded to the channel if and only if the mute
\* flag is off when the frame is delivered.
C5_ForwardedIffNotMuted ==
    [][\A k \in Attempts : onaudioprocess(k) => (lastFrame'.sent <=> ~isMuted)]_vars

\* C6: a start request made while the status is connecting or connected
\* creates no context, stream or channel and overwrites no stored handle.
C6_SecondStartHasNoEffect ==
    [][(StartBranch /\ connectionStatus \in {"connecting", "connected"}) =>
          /\ ctx' = ctx /\ stream' = stream /\ chan' = chan
          /\ audioContextRef' = audioContextRef
          /\ streamRef' = streamRef
          /\ sessionRef' = sessionRef]_vars

\* C7: an explicit stop moves the status to idle and in the same step closes
\* the session's channel, stops the tracks of the stored stream, closes the
\* stored contexts, stops every unit of sourcesRef, empties sourcesRef and sets
\* nextStartTimeRef to 0.
C7_StopReleasesEverything ==
    [][StopBranch =>
          /\ connectionStatus' = "idle"
          /\ ~isActive'
          /\ sessionRef # NoRef /\ chan'[sessionRef] \in {"closing", "closed"}
          /\ streamRef # NoRef /\ stream'[streamRef] = "stopped"
          /\ audioContextRef # NoRef /\ ctx'[audioContextRef] = "closed"
          /\ \A u \in units' : u.id \notin sourcesRef
          /\ sourcesRef' = {}
          /\ nextStartTimeRef' = 0]_vars

\* C7 witness: a stop that found the session connected with units scheduled
C7_Witness_StoppedWithUnits ==
    /\ chain.by = "stop"
    /\ chain.n >= 1
    /\ connectionStatus = "idle"
    /\ sessionRef # NoRef /\ chan[sessionRef] = "closing"
    /\ units = {} /\ sourcesRef = {} /\ nextStartTimeRef = 0

\* What a session that is over must have let go of: its capture callback
\* delivers no frame, its stream's tracks are stopped, no unit is scheduled
Released(k) ==
    /\ ~(capture'[k] /\ ctx'[k] = "running")
    /\ stream'[k] # "live"
    /\ \A u \in units' : u.id \notin sourcesRef
    /\ sourcesRef' = {}

\* C8: when the channel delivers a close event the status becomes idle, the
\* capture loop is stopped, the input device released, every unit stopped,
\* sourcesRef emptied and nextStartTimeRef reset.
C8_CloseReleasesEverything ==
    [][\A k \in Attempts : onclose(k) =>
          /\ connectionStatus' = "idle"
          /\ Released(k)
          /\ nextStartTimeRef' = 0]_vars

\* C9: when the channel reports an error the status becomes error, the
\* capture loop stops forwarding, the input stream's tracks are stopped and
\* every scheduled unit is stopped with sourcesRef left empty.
C9_ErrorReleasesEverything ==
    [][\A k \in Attempts : onerror(k) =>
          /\ connectionStatus' = "error"
          /\ Released(k)]_vars

\* C10: when acquiring the input device fails, the status is idle again and
\* the contexts and the stream the attempt created are closed or released.
C10_FailedStartKeepsNothing ==
    [][\A k \in Attempts : MediaDenied(k) =>
          /\ connectionStatus' = "idle"
          /\ ctx'[k] # "running"
          /\ stream'[k] # "live"]_vars

\* C11: a fragment whose decoding fails leaves the status as it was and adds
\* no unit for it, and the rest of its message is handled all the same: its
\* partial transcripts are appended, its turnComplete finalizes the buffers and
\* its interrupted flag clears sourcesRef and resets nextStartTimeRef.
C11_DecodeFailureSkipsOnlyTheFragment ==
    [][\A h \in handlers : DecodeFailed(h) =>
          /\ connectionStatus' = connectionStatus
          /\ \A u \in units' : u.id # h.id
          /\ h.id \notin sourcesRef'
          /\ Transcriptions(h.att, h.id, h.inT, h.outT, h.tc)
          /\ h.intr => (sourcesRef' = {} /\ nextStartTimeRef' = 0)]_vars

\* C12: an interruption handled while sourcesRef is empty is a no-op: the
\* status, the transcript buffers, the units and sourcesRef stay as they were,
\* and the fragment scheduled next gets the start time it would have got
\* without it: one arriving later the same max(nextStartTimeRef, clock), one
\* already waiting at the decode step the same nextStartTimeRef it reads.
C12_InterruptionWhileEmptyIsNoOp ==
    [][((\E k \in Attempts : onmessage(k, 0, TRUE, FALSE, FALSE, FALSE))
            /\ sourcesRef = {}) =>
          /\ connectionStatus' = connectionStatus
          /\ currentInput' = currentInput /\ currentOutput' = currentOutput
          /\ sourcesRef' = {} /\ units' = units
          /\ \A c \in clock..MaxClock :
                 ClockSample(nextStartTimeRef', c) = ClockSample(nextStartTimeRef, c)
          /\ handlers' # {} => nextStartTimeRef' = nextStartTimeRef]_vars

\* C13: once a turnComplete has been handled, the two in-progress buffers hold
\* nothing but partial transcripts received since that turnComplete, the
\* user's and the model's each.
C13_BuffersHoldOnlyPartialsSinceTurnComplete ==
    lastTurnComplete > 0 =>
        /\ \A i \in DOMAIN currentInput : currentInput[i] > lastTurnComplete
        /\ \A i \in DOMAIN currentOutput : currentOutput[i] > lastTurnComplete

\* C14: handling a turnComplete appends exactly two entries to the history,
\* a user entry then a model entry, whose texts are the contents of
\* currentInput and currentOutput at that moment (with or without the partial
\* the same message carries).
C14_TurnCompleteFinalizesBuffers ==
    [][lastTurnComplete' # lastTurnComplete =>
          LET n == Len(history)
              own == TextOf(lastTurnComplete')
          IN /\ Len(history') = n + 2
             /\ SubSeq(history', 1, n) = history
             /\ history'[n + 1].type = "user"
             /\ history'[n + 1].text \in {currentInput, AppendText(currentInput, own)}
             /\ history'[n + 2].type = "model"
             /\ history'[n + 2].text \in {currentOutput, AppendText(currentOutput, own)}]_vars

\* C15: when a session opens with every earlier session over (stopped, closed
\* or failed), the playback timeline is clear: nextStartTimeRef is 0 and
\* sourcesRef is empty.
C15_OpenFindsTimelineClear ==
    [][\A k \in Attempts :
          (onopen(k) /\ \A j \in Attempts \ {k} : chan[j] \notin {"connecting", "open"})
              => (nextStartTimeRef' = 0 /\ sourcesRef' = {})]_vars

\* C16: once the error event of a session has set the status to error, the
\* close event of that session leaves it error.
C16_ErrorStaysAfterClose ==
    [][\A k \in Attempts :
          (onclose(k) /\ connectionStatus = "error") => connectionStatus' = "error"]_vars

\* C18: isActive is true exactly when connectionStatus is connected.
C18_ActiveIffConnected ==
    isActive <=> (connectionStatus = "connected")

\* C19: from an explicit stop until the next session opens, sourcesRef stays
\* empty and nextStartTimeRef stays 0, whatever handler was waiting at the
\* decode step when the stop was made.
C19_NothingScheduledAfterStop ==
    (chain.on = "stop" /\ ~isActive /\ \A k \in Attempts : chan[k] # "open") =>
        (sourcesRef = {} /\ nextStartTimeRef = 0)

\* C17: the frames of a session reach session.sendRealtimeInput in the order
\* the capture callback delivered them and none before sessionPromise is
\* fulfilled: sendLog is in capture order, the callbacks still waiting on the
\* promise are in capture order and behind everything sent, nothing is sent for
\* a session whose promise is not fulfilled, and no unmuted frame is left out.
C17_SendsInCaptureOrder ==
    /\ \A i, j \in DOMAIN sendLog :
           (i < j /\ sendLog[i].att = sendLog[j].att) => sendLog[i].n < sendLog[j].n
    /\ \A i \in DOMAIN sendLog : sessionPromise[sendLog[i].att] = "resolved"
    /\ \A k \in Attempts :
           /\ \A i, j \in DOMAIN thens[k] : i < j => thens[k][i].n < thens[k][j].n
           /\ \A i \in DOMAIN thens[k], j \in DOMAIN sendLog :
                  sendLog[j].att = k => sendLog[j].n < thens[k][i].n
           /\ thens[k] # << >> => sessionPromise[k] = "pending"
    /\ (nAttempts = 1 /\ ~closureMuted[1]) => Len(sendLog) + Len(thens[1]) = nFrames

\* C17 witness: two frames captured while sessionPromise was pending were sent
\* when it was fulfilled, and a third captured afterwards was sent after them
C17_Witness_QueuedThenDirect ==
    /\ Len(sendLog) = 3
    /\ sendLog[1].queued /\ sendLog[2].queued /\ ~sendLog[3].queued
    /\ sendLog[1].n = 1 /\ sendLog[2].n = 2 /\ sendLog[3].n = 3

====
